---- MODULE Spec2Model ----
(***************************************************************************)
(* Model of worker.js: the key-value backed video catalogue (records and   *)
(* the 'video:list' index), the signed-URL codec, and the request          *)
(* handlers, one action per suspension point (await) of each handler.      *)
(*                                                                         *)
(* Text is modelled as a sequence of character codes (ASCII), so that      *)
(* btoa, slice, parseInt, toString and URL parsing are computed on         *)
(* characters, as the code computes them.                                  *)
(***************************************************************************)
EXTENDS Integers, Sequences, FiniteSets, TLC

VARIABLES
    now,      \* Date.now(), in milliseconds since the start of the model
    kvRec,    \* env.VIDEOS, keys `video:${id}`: a function from the ids that have a record to the parsed record
    kvList,   \* env.VIDEOS, key 'video:list'
    proc,     \* the handler invocations: position, locals and response of each
    issued,   \* the { videoId, signature, expires } last returned by get-video (the client's stream URL)
    viewsDue  \* per id created and not deleted since: the views it was created with plus the stream requests that have persisted an increment since

vars == <<now, kvRec, kvList, proc, issued, viewsDue>>

(***************************************************************************)
(* Bounds of the model.                                                    *)
(***************************************************************************)
\* handler invocations that may be in flight together
MaxProcs == 2
\* the clock takes the instants 0..ClockSpan and the same instants one TTL later
ClockSpan == 0
\* a create is not started once the index, or a copy of it, holds this many entries
MaxListLen == 2
\* a stream request is not started for a video with a views value this high
MaxViews == 2

(***************************************************************************)
(* Program constants.                                                      *)
(***************************************************************************)
\* generateSignedUrl(videoId, secretKey, expiresIn = 86400)
ExpiresIn == 86400
\* .slice(0, 32)
SigLen == 32
\* 20 * 1024 * 1024
LargeThreshold == 20 * 1024 * 1024

Min(a, b) == IF a < b THEN a ELSE b

(***************************************************************************)
(* Text.                                                                   *)
(***************************************************************************)
\* the characters the model writes out
ChPlus == <<43>>
ChSpace == <<32>>
ChTilde == <<126>>
ChX == <<120>>

IsDigit(c) == c >= 48 /\ c <= 57

\* Number.prototype.toString() of a non-negative integer
RECURSIVE ToStr(_)
ToStr(n) == IF n < 10 THEN <<48 + n>> ELSE ToStr(n \div 10) \o <<48 + (n % 10)>>

\* parseInt(string): leading white space is skipped, then an optional sign, then
\* the longest run of decimal digits; NaN when there is no digit
RECURSIVE SkipSpace(_)
SkipSpace(s) == IF Len(s) > 0 /\ s[1] = 32 THEN SkipSpace(Tail(s)) ELSE s

RECURSIVE DigitsValue(_, _)
DigitsValue(s, acc) ==
    IF Len(s) > 0 /\ IsDigit(s[1])
    THEN DigitsValue(Tail(s), acc * 10 + (s[1] - 48))
    ELSE acc

parseInt(str) ==
    LET t == SkipSpace(str)
        neg == Len(t) > 0 /\ t[1] = 45
        u == IF Len(t) > 0 /\ (t[1] = 45 \/ t[1] = 43) THEN Tail(t) ELSE t
    IN  IF Len(u) > 0 /\ IsDigit(u[1])
        THEN [nan |-> FALSE, val |-> IF neg THEN 0 - DigitsValue(u, 0) ELSE DigitsValue(u, 0)]
        ELSE [nan |-> TRUE, val |-> 0]

\* the base64 alphabet: A-Z a-z 0-9 + /
B64Char(i) ==
    IF i < 26 THEN 65 + i
    ELSE IF i < 52 THEN 97 + (i - 26)
    ELSE IF i < 62 THEN 48 + (i - 52)
    ELSE IF i = 62 THEN 43
    ELSE 47

\* btoa(bytes): three bytes to four characters, '=' padding on a short last group
RECURSIVE btoa(_)
btoa(s) ==
    IF Len(s) = 0 THEN <<>>
    ELSE IF Len(s) = 1 THEN
        <<B64Char(s[1] \div 4), B64Char((s[1] % 4) * 16), 61, 61>>
    ELSE IF Len(s) = 2 THEN
        <<B64Char(s[1] \div 4),
          B64Char((s[1] % 4) * 16 + (s[2] \div 16)),
          B64Char((s[2] % 16) * 4), 61>>
    ELSE
        <<B64Char(s[1] \div 4),
          B64Char((s[1] % 4) * 16 + (s[2] \div 16)),
          B64Char((s[2] % 16) * 4 + (s[3] \div 64)),
          B64Char(s[3] % 64)>> \o btoa(SubSeq(s, 4, Len(s)))

\* String.prototype.slice(0, n)
Slice0(s, n) == SubSeq(s, 1, Min(n, Len(s)))

(***************************************************************************)
(* The signed-URL codec.                                                   *)
(***************************************************************************)
\* `${videoId}:${expires}` + secretKey, encoded and cut
SignatureOf(videoId, expires, secretKey) ==
    Slice0(btoa(videoId \o <<58>> \o expires \o secretKey), SigLen)

generateSignedUrl(videoId, secretKey, t) ==
    LET expires == t + (ExpiresIn * 1000)
    IN  [signature |-> SignatureOf(videoId, ToStr(expires), secretKey),
         expires |-> ToStr(expires)]

\* a check of the signature that leaves the expiry out
verifySignatureOnly(videoId, signature, expires, secretKey, t) ==
    signature = SignatureOf(videoId, expires, secretKey)

verifySignedUrl(videoId, signature, expires, secretKey, t) ==
    LET expiresNum == parseInt(expires)
    IN  IF expiresNum.nan \/ t > expiresNum.val
        THEN FALSE
        ELSE signature = SignatureOf(videoId, expires, secretKey)

(***************************************************************************)
(* URLs.  The stream URL is built by handleGetVideo and parsed again by    *)
(* handleStream (new URL(request.url), pathname.split('/'),                *)
(* searchParams.get).                                                      *)
(***************************************************************************)
\* "/api/video/"
TxtApiVideo == <<47, 97, 112, 105, 47, 118, 105, 100, 101, 111, 47>>
\* "/stream"
TxtStream == <<47, 115, 116, 114, 101, 97, 109>>
\* "signature" and "expires"
TxtSignature == <<115, 105, 103, 110, 97, 116, 117, 114, 101>>
TxtExpires == <<101, 120, 112, 105, 114, 101, 115>>

\* `/api/video/${videoId}/stream?signature=${signature}&expires=${expires}`
StreamUrl(videoId, signature, expires) ==
    TxtApiVideo \o videoId \o TxtStream \o <<63>> \o TxtSignature \o <<61>> \o signature
        \o <<38>> \o TxtExpires \o <<61>> \o expires

\* `/api/video/${videoId}` as the client of get-video and delete writes it
VideoUrl(videoId) == TxtApiVideo \o videoId

\* the position of the first c in s, 0 when there is none
RECURSIVE IndexFrom(_, _, _)
IndexFrom(s, c, i) ==
    IF i > Len(s) THEN 0 ELSE IF s[i] = c THEN i ELSE IndexFrom(s, c, i + 1)

IndexOf(s, c) == IndexFrom(s, c, 1)

\* String.prototype.split(c)
RECURSIVE Split(_, _)
Split(s, c) ==
    LET i == IndexOf(s, c)
    IN  IF i = 0 THEN <<s>>
        ELSE <<SubSeq(s, 1, i - 1)>> \o Split(SubSeq(s, i + 1, Len(s)), c)

\* URL.pathname and the query string of a request URL (no fragment is sent)
Pathname(url) ==
    LET i == IndexOf(url, 63) IN IF i = 0 THEN url ELSE SubSeq(url, 1, i - 1)

QueryString(url) ==
    LET i == IndexOf(url, 63) IN IF i = 0 THEN <<>> ELSE SubSeq(url, i + 1, Len(url))

\* url.pathname.split('/')[3]; undefined reads as the empty text
PathVideoId(url) ==
    LET parts == Split(Pathname(url), 47)
    IN  IF Len(parts) >= 4 THEN parts[4] ELSE <<>>

\* application/x-www-form-urlencoded decoding of a value: '+' is a space
\* (no '%' occurs in the texts of the model)
FormDecode(s) == [i \in 1..Len(s) |-> IF s[i] = ChPlus[1] THEN ChSpace[1] ELSE s[i]]

\* the first value of `name` among the pairs of the query; null reads as the empty text
RECURSIVE FirstParam(_, _)
FirstParam(pairs, name) ==
    IF Len(pairs) = 0 THEN <<>>
    ELSE LET pr == pairs[1]
             i == IndexOf(pr, 61)
             k == IF i = 0 THEN pr ELSE SubSeq(pr, 1, i - 1)
             v == IF i = 0 THEN <<>> ELSE SubSeq(pr, i + 1, Len(pr))
         IN  IF FormDecode(k) = name THEN FormDecode(v) ELSE FirstParam(Tail(pairs), name)

\* url.searchParams.get(name)
SearchParam(url, name) ==
    IF QueryString(url) = <<>> THEN <<>> ELSE FirstParam(Split(QueryString(url), 38), name)

(***************************************************************************)
(* Identifiers.                                                            *)
(***************************************************************************)
\* b.toString(16).padStart(2, '0')
HexDigit(n) == IF n < 10 THEN 48 + n ELSE 87 + n

HexByte(b) == <<HexDigit(b \div 16), HexDigit(b % 16)>>

\* generateVideoId(): the 16 random bytes, two hex digits each
RECURSIVE HexOfBytes(_)
HexOfBytes(bytes) ==
    IF Len(bytes) = 0 THEN <<>> ELSE HexByte(bytes[1]) \o HexOfBytes(Tail(bytes))

generateVideoId(bytes) == HexOfBytes(bytes)

\* the value crypto.getRandomValues returns in the model
Bytes1 == [i \in 1..16 |-> (i * 23) % 256]
RandomPool == {Bytes1}

\* ids a client may choose for save-metadata: "abc123" and "ab~"
IdShort == <<97, 98, 99, 49, 50, 51>>
IdTilde == <<97, 98>> \o ChTilde

\* env.SECRET_KEY: "s3cr3tK3y"
SecretKey == <<115, 51, 99, 114, 51, 116, 75, 51, 121>>

(***************************************************************************)
(* The key-value store.  A value is kept as the parsed document: the texts *)
(* and finite numbers of a record are unchanged by JSON.stringify followed *)
(* by JSON.parse.  The key 'video:list' is kept apart from the keys        *)
(* `video:${id}` (no id of the model is "list").                           *)
(***************************************************************************)
\* what get() answers for a key that is not there, and an unset local
Null == [null |-> TRUE]

\* the store with no key
EmptyKv == [k \in {} |-> Null]

\* env.VIDEOS.get(`video:${id}`)
KvGet(kv, id) == IF id \in DOMAIN kv THEN kv[id] ELSE Null

\* env.VIDEOS.put(`video:${id}`, JSON.stringify(metadata))
KvPut(kv, id, metadata) == [k \in (DOMAIN kv) \cup {id} |-> IF k = id THEN metadata ELSE kv[k]]

\* env.VIDEOS.delete(`video:${id}`)
KvDelete(kv, id) == [k \in (DOMAIN kv) \ {id} |-> kv[k]]

\* getVideoList: listStr ? JSON.parse(listStr) : []
getVideoList(listVal) == IF listVal.present THEN listVal.ids ELSE <<>>

\* what put('video:list', JSON.stringify(list)) leaves under the key
ListValue(list) == [present |-> TRUE, ids |-> list]

\* videoList.unshift(id)
\* a prepend whose result is dropped, as an unused videoList.concat([id]) would be
ConcatUnused(list, id) == list

Unshift(list, id) == <<id>> \o list

\* videoList.filter(x => x !== id)
\* a filter that stops at the first match, as list.splice(list.indexOf(id), 1) would
FilterOutFirst(list, id) ==
    IF \E i \in 1..Len(list) : list[i] = id
    THEN LET k == CHOOSE i \in 1..Len(list) :
                      list[i] = id /\ \A j \in 1..(i - 1) : list[j] # id
         IN  SubSeq(list, 1, k - 1) \o SubSeq(list, k + 1, Len(list))
    ELSE list

RECURSIVE FilterOut(_, _)
FilterOut(list, id) ==
    IF Len(list) = 0 THEN <<>>
    ELSE IF list[1] = id THEN FilterOut(Tail(list), id)
    ELSE <<list[1]>> \o FilterOut(Tail(list), id)

\* !metadataStr
IsMissing(metadataStr) == metadataStr = Null

\* !metadata || !metadata.id
IsInvalidMetadata(metadata) == metadata = Null \/ metadata.id = <<>>

\* metadata.views++
\* a handler that counts a view when the record is new only
IncrementViewsOnce(metadata) ==
    [metadata EXCEPT !.views = IF @ = 0 THEN 1 ELSE @]

IncrementViews(metadata) == [metadata EXCEPT !.views = @ + 1]

\* a threshold that takes in the boundary size
IsLargeOrEqual(fileSize) == fileSize >= LargeThreshold

\* handleStream: metadata.fileSize > 20 * 1024 * 1024
IsLarge(fileSize) == fileSize > LargeThreshold

\* handleUpload: isLarge: video.file_size > 20 * 1024 * 1024
UploadIsLarge(fileSize) == fileSize > LargeThreshold

\* Response.ok of an upstream answer
IsOk(status) == status >= 200 /\ status <= 299

(***************************************************************************)
(* Inputs.                                                                 *)
(***************************************************************************)
\* the videos of the model, one on each side of the threshold; `views` is what a
\* save-metadata body for the video carries
SmallVideo == [title |-> "t1", fileSize |-> LargeThreshold, views |-> 0]
LargeVideo == [title |-> "t2", fileSize |-> LargeThreshold + 1, views |-> 1]
Videos == {SmallVideo, LargeVideo}

\* headers.get(name) of a header that is not there
NoHeader == "(null)"

HasHeader(value) == value # NoHeader

\* the answers an upstream origin gives to a byte-stream request: a full body, a
\* satisfied range, a success with another status and no length, a failure
UpstreamAnswers ==
    {[status |-> 200, contentRange |-> NoHeader, contentLength |-> "1000"],
     [status |-> 206, contentRange |-> "bytes 100-199/1000", contentLength |-> "100"],
     [status |-> 203, contentRange |-> NoHeader, contentLength |-> NoHeader],
     [status |-> 404, contentRange |-> NoHeader, contentLength |-> NoHeader]}

NoAnswer == [status |-> 0, contentRange |-> NoHeader, contentLength |-> NoHeader]

\* the Range header of the client's stream request
ClientRanges == {NoHeader, "bytes=100-199"}

\* an upstream request that always asks for the whole file
WholeFileRange(range) == "bytes=0-"

\* request.headers.get('Range') || 'bytes=0-'
UpstreamRange(range) == IF HasHeader(range) THEN range ELSE "bytes=0-"

\* the headers of a response, as far as the model follows them
NoHeaders ==
    [contentType |-> NoHeader, acceptRanges |-> NoHeader, contentRange |-> NoHeader,
     contentLength |-> NoHeader]

\* jsonResponse: 'Content-Type': 'application/json'
JsonHeaders == [NoHeaders EXCEPT !.contentType = "application/json"]

\* the headers of a relayed stream: the fixed ones, and Content-Range and
\* Content-Length copied from the upstream answer when it has them
RelayHeaders(a) ==
    [contentType |-> "video/mp4", acceptRanges |-> "bytes",
     contentRange |-> IF HasHeader(a.contentRange) THEN a.contentRange ELSE NoHeader,
     contentLength |-> IF HasHeader(a.contentLength) THEN a.contentLength ELSE NoHeader]

\* the instants the clock shows
Instants == (0..ClockSpan) \cup {ExpiresIn * 1000 + k : k \in (0 - 1)..(ClockSpan + 1)}

\* how a client may alter the stream URL it was given before sending it: the
\* first or the last character of a field changed, a character appended to the
\* expires value, the expires value replaced by a letter
NoTamper == [kind |-> "none", field |-> "none"]

BasicTampers == {NoTamper, [kind |-> "first", field |-> "signature"]}

AllTampers ==
    {NoTamper}
        \cup {[kind |-> k, field |-> f] :
                k \in {"first", "last"}, f \in {"videoId", "signature", "expires"}}
        \cup {[kind |-> "append", field |-> "expires"], [kind |-> "replace", field |-> "expires"]}

\* another character than c
OtherChar(c) ==
    IF IsDigit(c) THEN (IF c = 57 THEN 56 ELSE 57)
    ELSE IF c = 97 THEN 98 ELSE 97

SubstAt(s, i) == [s EXCEPT ![i] = OtherChar(s[i])]

\* the request URL a client sends, from the token it holds
TamperedUrl(tok, t) ==
    LET f(name, s) ==
            IF t.field # name THEN s
            ELSE IF t.kind = "first" THEN SubstAt(s, 1)
            ELSE IF t.kind = "last" THEN SubstAt(s, Len(s))
            ELSE IF t.kind = "append" THEN s \o ChX
            ELSE IF t.kind = "replace" THEN ChX
            ELSE s
    IN  StreamUrl(f("videoId", tok.videoId), f("signature", tok.signature),
                  f("expires", tok.expires))

(***************************************************************************)
(* Handler invocations.                                                    *)
(***************************************************************************)
Procs == 1..MaxProcs

IdleProc ==
    [op |-> "none", pc |-> "idle", id |-> <<>>, meta |-> Null, lst |-> <<>>, out |-> <<>>,
     status |-> 0, body |-> "none", up |-> {}, upStatus |-> 0, threwAt |-> "none",
     found |-> "unread", isLarge |-> FALSE,
     range |-> NoHeader, upRange |-> NoHeader, upAns |-> NoAnswer, hdr |-> NoHeaders,
     parsed |-> FALSE, signature |-> <<>>, expires |-> <<>>, at |-> 0, plain |-> FALSE,
     authOk |-> FALSE]

NoToken == [some |-> FALSE, videoId |-> <<>>, signature |-> <<>>, expires |-> <<>>, at |-> 0]

Free(p) == proc[p].pc = "idle"

\* a handler starts: a fresh invocation in slot p
Begin(op, pc, id) ==
    [IdleProc EXCEPT !.op = op, !.pc = pc, !.id = id]

\* the handler returns a response: its locals are gone, but for the metadata of a
\* create, which the request and the response carry
Returned(pr, status, body) ==
    [pr EXCEPT !.pc = "done", !.status = status, !.body = body, !.lst = <<>>,
               !.meta = IF pr.op \in {"upload", "save"} THEN @ ELSE Null]

\* return jsonResponse(..., status)
Respond(pr, status) == [Returned(pr, status, "json") EXCEPT !.hdr = JsonHeaders]

\* return new Response(upstream.body, { status, headers }) for upstream answer a
Relayed(pr, status, a) ==
    [Returned(pr, status, "stream") EXCEPT
        !.upStatus = a.status, !.upAns = a, !.hdr = RelayHeaders(a)]

Init ==
    /\ now = 0
    /\ kvRec = EmptyKv
    /\ kvList = [present |-> FALSE, ids |-> <<>>]
    /\ proc = [p \in Procs |-> IdleProc]
    /\ issued = NoToken
    /\ viewsDue = EmptyKv

(***************************************************************************)
(* handleUpload.                                                           *)
(***************************************************************************)
\* the index, and every copy of it an invocation holds, is shorter than MaxListLen
RoomInList ==
    /\ Len(getVideoList(kvList)) < MaxListLen
    /\ \A q \in Procs : Len(proc[q].lst) < MaxListLen

\* formData is read and checked, sendVideo is called
\* (tooLarge stands for videoFile.size > 2 * 1024 * 1024 * 1024)
UploadStart(p) ==
    /\ Free(p)
    /\ RoomInList
    /\ \E hasFile \in BOOLEAN, tooLarge \in BOOLEAN :
        proc' = [proc EXCEPT ![p] =
            IF ~hasFile \/ tooLarge
            THEN Respond(Begin("upload", "u_send", <<>>), 400)
            ELSE [Begin("upload", "u_send", <<>>) EXCEPT !.up = {"sendVideo"}]]
    /\ UNCHANGED <<now, kvRec, kvList, issued, viewsDue>>

\* the ids that are in use: crypto.getRandomValues is taken not to repeat one of them
IdsInUse ==
    (DOMAIN kvRec) \cup {kvList.ids[i] : i \in 1..Len(kvList.ids)}
        \cup {proc[q].id : q \in Procs}

\* sendVideo answers; on ok the id is drawn and the metadata is built
UploadSent(p, V) ==
    /\ proc[p].pc = "u_send"
    /\ \E ok \in BOOLEAN :
        IF ~ok
        THEN proc' = [proc EXCEPT ![p] = Respond(@, 500)]
        ELSE \E bytes \in RandomPool, video \in V :
                /\ generateVideoId(bytes) \notin IdsInUse
                /\ proc' = [proc EXCEPT ![p] =
                        [@ EXCEPT !.pc = "u_putrec",
                                  !.id = generateVideoId(bytes),
                                  !.meta = [id |-> generateVideoId(bytes),
                                            title |-> video.title,
                                            fileSize |-> video.fileSize, views |-> 0]]]
    /\ UNCHANGED <<now, kvRec, kvList, issued, viewsDue>>

UploadPutRecord(p) ==
    /\ proc[p].pc = "u_putrec"
    /\ kvRec' = KvPut(kvRec, proc[p].id, proc[p].meta)
    /\ viewsDue' = KvPut(viewsDue, proc[p].id, proc[p].meta.views)
    /\ proc' = [proc EXCEPT ![p].pc = "u_getlist"]
    /\ UNCHANGED <<now, kvList, issued>>

UploadGetList(p) ==
    /\ proc[p].pc = "u_getlist"
    /\ proc' = [proc EXCEPT ![p].pc = "u_putlist", ![p].lst = getVideoList(kvList)]
    /\ UNCHANGED <<now, kvRec, kvList, issued, viewsDue>>

UploadPutList(p) ==
    /\ proc[p].pc = "u_putlist"
    /\ kvList' = ListValue(Unshift(proc[p].lst, proc[p].id))
    /\ proc' = [proc EXCEPT ![p] =
            [Respond(@, 200) EXCEPT !.isLarge = UploadIsLarge(proc[p].meta.fileSize)]]
    /\ UNCHANGED <<now, kvRec, issued, viewsDue>>

(***************************************************************************)
(* handleSaveMetadata.                                                     *)
(***************************************************************************)
\* the request body: a record, or a document without an id
SaveStart(p, docs) ==
    /\ Free(p)
    /\ RoomInList
    /\ \E metadata \in docs :
        proc' = [proc EXCEPT ![p] =
            IF IsInvalidMetadata(metadata)
            THEN Respond(Begin("save", "m_putrec", <<>>), 400)
            ELSE [Begin("save", "m_putrec", metadata.id) EXCEPT !.meta = metadata]]
    /\ UNCHANGED <<now, kvRec, kvList, issued, viewsDue>>

\* a record write that is lost: the put is issued without await and fails
SavePutRecordLost(p) ==
    /\ proc[p].pc = "m_putrec"
    /\ proc' = [proc EXCEPT ![p].pc = "m_getlist"]
    /\ UNCHANGED <<now, kvRec, kvList, issued, viewsDue>>

SavePutRecord(p) ==
    /\ proc[p].pc = "m_putrec"
    /\ kvRec' = KvPut(kvRec, proc[p].id, proc[p].meta)
    /\ viewsDue' = KvPut(viewsDue, proc[p].id, proc[p].meta.views)
    /\ proc' = [proc EXCEPT ![p].pc = "m_getlist"]
    /\ UNCHANGED <<now, kvList, issued>>

SaveGetList(p) ==
    /\ proc[p].pc = "m_getlist"
    /\ proc' = [proc EXCEPT ![p].pc = "m_putlist", ![p].lst = getVideoList(kvList)]
    /\ UNCHANGED <<now, kvRec, kvList, issued, viewsDue>>

SavePutList(p) ==
    /\ proc[p].pc = "m_putlist"
    /\ kvList' = ListValue(Unshift(proc[p].lst, proc[p].id))
    /\ proc' = [proc EXCEPT ![p] = Respond(@, 200)]
    /\ UNCHANGED <<now, kvRec, issued, viewsDue>>

(***************************************************************************)
(* handleGetVideos.                                                        *)
(***************************************************************************)
ListStart(p) ==
    /\ Free(p)
    /\ proc' = [proc EXCEPT ![p] = Begin("list", "l_getlist", <<>>)]
    /\ UNCHANGED <<now, kvRec, kvList, issued, viewsDue>>

ListGetList(p) ==
    /\ proc[p].pc = "l_getlist"
    /\ proc' = [proc EXCEPT ![p] =
            IF getVideoList(kvList) = <<>>
            THEN Respond(@, 200)
            ELSE [@ EXCEPT !.pc = "l_item", !.lst = getVideoList(kvList)]]
    /\ UNCHANGED <<now, kvRec, kvList, issued, viewsDue>>

\* one turn of the loop: the record of the next id is read and, when there, pushed
ListItem(p) ==
    /\ proc[p].pc = "l_item"
    /\ LET videoId == Head(proc[p].lst)
           pushed == IF IsMissing(KvGet(kvRec, videoId))
                     THEN proc[p].out
                     ELSE Append(proc[p].out, videoId)
       IN  proc' = [proc EXCEPT ![p] =
                IF Len(proc[p].lst) = 1
                THEN Respond([@ EXCEPT !.out = pushed], 200)
                ELSE [@ EXCEPT !.out = pushed, !.lst = Tail(@)]]
    /\ UNCHANGED <<now, kvRec, kvList, issued, viewsDue>>

(***************************************************************************)
(* handleGetVideo.                                                         *)
(***************************************************************************)
GetVideoStart(p, ids) ==
    /\ Free(p)
    /\ \E id \in ids :
        proc' = [proc EXCEPT ![p] = Begin("get", "v_get", PathVideoId(VideoUrl(id)))]
    /\ UNCHANGED <<now, kvRec, kvList, issued, viewsDue>>

\* the record is read; when there, a token is minted and the stream URL returned
GetVideoGet(p) ==
    /\ proc[p].pc = "v_get"
    /\ IF IsMissing(KvGet(kvRec, proc[p].id))
       THEN /\ proc' = [proc EXCEPT ![p] = Respond(@, 404)]
            /\ UNCHANGED issued
       ELSE LET signed == generateSignedUrl(proc[p].id, SecretKey, now)
            IN  /\ issued' = [some |-> TRUE, videoId |-> proc[p].id,
                              signature |-> signed.signature, expires |-> signed.expires,
                              at |-> now]
                /\ proc' = [proc EXCEPT ![p] = Respond(@, 200)]
    /\ UNCHANGED <<now, kvRec, kvList, viewsDue>>

(***************************************************************************)
(* handleStream.                                                           *)
(***************************************************************************)
\* the views values of video id that are stored, due, or held by an invocation
ViewsInSight(id) ==
    {KvGet(kvRec, i).views : i \in (DOMAIN kvRec) \cap {id}}
        \cup {viewsDue[i] : i \in (DOMAIN viewsDue) \cap {id}}
        \cup {proc[q].meta.views : q \in {r \in Procs : proc[r].id = id /\ proc[r].meta # Null}}

\* handleStream up to its first await, for the request URL `url`: the URL is parsed
\* and the token verified
StreamEntry(url, t) ==
    LET videoId == PathVideoId(url)
        signature == SearchParam(url, TxtSignature)
        expires == SearchParam(url, TxtExpires)
        ok == verifySignedUrl(videoId, signature, expires, SecretKey, t)
        req == [Begin("stream", "s_get", videoId) EXCEPT
                    !.parsed = TRUE, !.signature = signature, !.expires = expires,
                    !.at = t, !.authOk = ok]
    IN  IF ~ok THEN Respond(req, 403) ELSE req

StreamStart(p, T) ==
    /\ Free(p)
    /\ issued.some
    /\ \E t \in T :
        \E req \in {StreamEntry(TamperedUrl(issued, t), now)} :
            /\ ViewsInSight(req.id) \subseteq 0..(MaxViews - 1)
            /\ proc' = [proc EXCEPT ![p] = [req EXCEPT !.plain = (t = NoTamper)]]
    /\ UNCHANGED <<now, kvRec, kvList, issued, viewsDue>>

\* signature and expires are not read after the token check
Forget(pr) ==
    [pr EXCEPT !.parsed = FALSE, !.signature = <<>>, !.expires = <<>>, !.at = 0,
               !.plain = FALSE]

\* the record is read; when there, its views are incremented in the local copy
StreamGet(p) ==
    /\ proc[p].pc = "s_get"
    /\ proc' = [proc EXCEPT ![p] =
            IF IsMissing(KvGet(kvRec, proc[p].id))
            THEN [Respond(Forget(@), 404) EXCEPT !.found = "no"]
            ELSE [Forget(@) EXCEPT !.pc = "s_put", !.found = "yes",
                                   !.meta = IncrementViews(KvGet(kvRec, proc[p].id))]]
    /\ UNCHANGED <<now, kvRec, kvList, issued, viewsDue>>

\* the local copy is written back, and the origin chosen by the file size is
\* called; the relay is sent the Range header of the request, read here
StreamPut(p) ==
    /\ proc[p].pc = "s_put"
    /\ kvRec' = KvPut(kvRec, proc[p].id, proc[p].meta)
    /\ viewsDue' = IF proc[p].id \in DOMAIN viewsDue
                   THEN KvPut(viewsDue, proc[p].id, viewsDue[proc[p].id] + 1)
                   ELSE viewsDue
    /\ \E range \in (IF IsLarge(proc[p].meta.fileSize) THEN ClientRanges ELSE {NoHeader}) :
        proc' = [proc EXCEPT ![p] =
            IF IsLarge(proc[p].meta.fileSize)
            THEN [@ EXCEPT !.pc = "s_relay", !.up = {"relay"},
                           !.range = range, !.upRange = UpstreamRange(range)]
            ELSE [@ EXCEPT !.pc = "s_getfile", !.up = {"getFile"}]]
    /\ UNCHANGED <<now, kvList, issued>>

\* the large-file relay answers
StreamRelay(p) ==
    /\ proc[p].pc = "s_relay"
    /\ \E a \in UpstreamAnswers :
        proc' = [proc EXCEPT ![p] =
            IF ~IsOk(a.status)
            THEN [Respond(@, 500) EXCEPT !.upStatus = a.status, !.upAns = a]
            ELSE Relayed(@, a.status, a)]
    /\ UNCHANGED <<now, kvRec, kvList, issued, viewsDue>>

\* getFile answers; on ok the file URL is fetched, with the Range header of the
\* request, read here
StreamGetFile(p) ==
    /\ proc[p].pc = "s_getfile"
    /\ \E ok \in BOOLEAN, range \in ClientRanges :
        proc' = [proc EXCEPT ![p] =
            IF ~ok
            THEN [Respond(@, 500) EXCEPT !.upStatus = 400]
            ELSE [@ EXCEPT !.pc = "s_file", !.up = @ \cup {"file"},
                           !.range = range, !.upRange = UpstreamRange(range)]]
    /\ UNCHANGED <<now, kvRec, kvList, issued, viewsDue>>

\* the file origin answers
StreamFile(p) ==
    /\ proc[p].pc = "s_file"
    /\ \E a \in UpstreamAnswers :
        proc' = [proc EXCEPT ![p] =
            Relayed(@, IF HasHeader(a.contentRange) THEN 206 ELSE 200, a)]
    /\ UNCHANGED <<now, kvRec, kvList, issued, viewsDue>>

(***************************************************************************)
(* handleDelete.                                                           *)
(***************************************************************************)
DeleteStart(p, ids) ==
    /\ Free(p)
    /\ \E id \in ids :
        proc' = [proc EXCEPT ![p] = Begin("delete", "d_get", PathVideoId(VideoUrl(id)))]
    /\ UNCHANGED <<now, kvRec, kvList, issued, viewsDue>>

\* a handler that calls deleteMessage before it looks whether the record is there
DeleteGetEager(p) ==
    /\ proc[p].pc = "d_get"
    /\ proc' = [proc EXCEPT ![p] =
            IF IsMissing(KvGet(kvRec, proc[p].id))
            THEN [Respond(@, 404) EXCEPT !.up = {"deleteMessage"}]
            ELSE [@ EXCEPT !.pc = "d_msg", !.meta = KvGet(kvRec, proc[p].id),
                           !.up = {"deleteMessage"}]]
    /\ UNCHANGED <<now, kvRec, kvList, issued, viewsDue>>

\* the record is read; when there, deleteMessage is called
DeleteGet(p) ==
    /\ proc[p].pc = "d_get"
    /\ proc' = [proc EXCEPT ![p] =
            IF IsMissing(KvGet(kvRec, proc[p].id))
            THEN Respond(@, 404)
            ELSE [@ EXCEPT !.pc = "d_msg", !.meta = KvGet(kvRec, proc[p].id),
                           !.up = {"deleteMessage"}]]
    /\ UNCHANGED <<now, kvRec, kvList, issued, viewsDue>>

\* deleteMessage answers; the answer is not looked at
DeleteMessage(p) ==
    /\ proc[p].pc = "d_msg"
    /\ \E status \in {200, 400} :
        proc' = [proc EXCEPT ![p] = [@ EXCEPT !.pc = "d_del", !.upStatus = status]]
    /\ UNCHANGED <<now, kvRec, kvList, issued, viewsDue>>

DeleteRecord(p) ==
    /\ proc[p].pc = "d_del"
    /\ kvRec' = KvDelete(kvRec, proc[p].id)
    /\ viewsDue' = KvDelete(viewsDue, proc[p].id)
    /\ proc' = [proc EXCEPT ![p].pc = "d_getlist"]
    /\ UNCHANGED <<now, kvList, issued>>

DeleteGetList(p) ==
    /\ proc[p].pc = "d_getlist"
    /\ proc' = [proc EXCEPT ![p].pc = "d_putlist", ![p].lst = getVideoList(kvList)]
    /\ UNCHANGED <<now, kvRec, kvList, issued, viewsDue>>

DeletePutList(p) ==
    /\ proc[p].pc = "d_putlist"
    /\ kvList' = ListValue(FilterOut(proc[p].lst, proc[p].id))
    /\ proc' = [proc EXCEPT ![p] = Respond(@, 200)]
    /\ UNCHANGED <<now, kvRec, issued, viewsDue>>

(***************************************************************************)
(* The awaited call rejects (a store operation fails, a fetch has a        *)
(* network error): the handler's catch answers 500 and nothing is written. *)
(***************************************************************************)
Rejects(p) ==
    /\ proc[p].pc \notin {"idle", "done"}
    /\ proc' = [proc EXCEPT ![p] = [Respond(@, 500) EXCEPT !.threwAt = proc[p].pc]]
    /\ UNCHANGED <<now, kvRec, kvList, issued, viewsDue>>

\* the response has been sent: the invocation is over
Return(p) ==
    /\ proc[p].pc = "done"
    /\ proc' = [proc EXCEPT ![p] = IdleProc]
    /\ UNCHANGED <<now, kvRec, kvList, issued, viewsDue>>

\* time passes
Tick ==
    /\ \E t \in Instants : t > now /\ now' = t
    /\ UNCHANGED <<kvRec, kvList, proc, issued, viewsDue>>

(***************************************************************************)
(* Specifications.                                                         *)
(***************************************************************************)
\* the request bodies of save-metadata: a record for each id of I, and a document
\* without an id
SaveDocs(I, V) ==
    {[id |-> i, title |-> v.title, fileSize |-> v.fileSize, views |-> v.views] :
        i \in I, v \in V}
        \cup {[id |-> <<>>, title |-> "t1", fileSize |-> LargeThreshold, views |-> 0]}

UploadSteps(p, V) ==
    \/ UploadSent(p, V) \/ UploadPutRecord(p) \/ UploadGetList(p) \/ UploadPutList(p)

SaveSteps(p) == SavePutRecord(p) \/ SaveGetList(p) \/ SavePutList(p)

ListSteps(p) == ListGetList(p) \/ ListItem(p)

StreamSteps(p) ==
    \/ StreamGet(p) \/ StreamPut(p) \/ StreamRelay(p) \/ StreamGetFile(p) \/ StreamFile(p)

DeleteSteps(p) ==
    \/ DeleteGet(p) \/ DeleteMessage(p) \/ DeleteRecord(p) \/ DeleteGetList(p)
    \/ DeletePutList(p)

\* requests one at a time, the clock standing still
SeqIds == {IdShort, generateVideoId(Bytes1)}

NextSeq ==
    \/ UploadStart(1) \/ UploadSteps(1, Videos)
    \/ SaveStart(1, SaveDocs({IdShort}, Videos)) \/ SaveSteps(1)
    \/ ListStart(1) \/ ListSteps(1)
    \/ GetVideoStart(1, SeqIds) \/ GetVideoGet(1)
    \/ StreamStart(1, BasicTampers) \/ StreamSteps(1)
    \/ DeleteStart(1, SeqIds) \/ DeleteSteps(1)
    \/ Rejects(1)
    \/ Return(1)

SpecSeq == Init /\ [][NextSeq]_vars

\* the token codec behind get-video and stream: records are saved and deleted,
\* tokens are minted, held while time passes, altered and presented
TokenIds == {generateVideoId(Bytes1), IdTilde}

NextToken ==
    \/ SaveStart(1, SaveDocs({IdTilde}, {SmallVideo})
                        \cup SaveDocs({generateVideoId(Bytes1)}, Videos))
    \/ SaveSteps(1)
    \/ GetVideoStart(1, TokenIds) \/ GetVideoGet(1)
    \/ StreamStart(1, AllTampers) \/ StreamSteps(1)
    \/ DeleteStart(1, TokenIds) \/ DeleteSteps(1)
    \/ Rejects(1)
    \/ Return(1)
    \/ Tick

SpecToken == Init /\ [][NextToken]_vars

\* requests in any interleaving; the invocations are interchangeable, and a
\* request takes the lowest one that is free
Lowest(p) == \A q \in Procs : q < p => ~Free(q)

Ids == {IdShort}

Next ==
    \E p \in Procs :
        \/ Lowest(p) /\ SaveStart(p, SaveDocs(Ids, Videos))
        \/ SaveSteps(p)
        \/ Lowest(p) /\ GetVideoStart(p, Ids)
        \/ GetVideoGet(p)
        \/ Lowest(p) /\ StreamStart(p, {NoTamper})
        \/ StreamSteps(p)
        \/ Lowest(p) /\ DeleteStart(p, Ids)
        \/ DeleteSteps(p)
        \/ Rejects(p)
        \/ Return(p)

Spec == Init /\ [][Next]_vars

\* creates in any interleaving: save-metadata creates abc123, upload creates the
\* drawn id
CreateSteps(p) ==
    \/ Lowest(p) /\ UploadStart(p)
    \/ UploadSteps(p, {LargeVideo})
    \/ Lowest(p) /\ SaveStart(p, SaveDocs(Ids, {SmallVideo}))
    \/ SaveSteps(p)

NextCreate == \E p \in Procs : CreateSteps(p) \/ Rejects(p) \/ Return(p)

SpecCreate == Init /\ [][NextCreate]_vars

\* creates, reads and streams in any interleaving, with no delete: abc123 is
\* saved, as a small or as a large video, looked up and streamed; uploads add
\* the drawn id
NextNoDelete ==
    \E p \in Procs :
        \/ Lowest(p) /\ UploadStart(p)
        \/ UploadSteps(p, {LargeVideo})
        \/ Lowest(p) /\ SaveStart(p, SaveDocs(Ids, Videos))
        \/ SaveSteps(p)
        \/ Lowest(p) /\ ListStart(p)
        \/ ListSteps(p)
        \/ Lowest(p) /\ GetVideoStart(p, Ids)
        \/ GetVideoGet(p)
        \/ Lowest(p) /\ StreamStart(p, {NoTamper})
        \/ StreamSteps(p)
        \/ Rejects(p)
        \/ Return(p)

SpecNoDelete == Init /\ [][NextNoDelete]_vars

\* creates and deletes in any interleaving, every store call succeeding
NextNoError ==
    \E p \in Procs :
        \/ CreateSteps(p)
        \/ Lowest(p) /\ DeleteStart(p, SeqIds)
        \/ DeleteSteps(p)
        \/ Return(p)

SpecNoError == Init /\ [][NextNoError]_vars

(***************************************************************************)
(* Properties.                                                             *)
(***************************************************************************)
\* how many times id is in list
Count(list, id) == Cardinality({i \in 1..Len(list) : list[i] = id})

\* a completed handler invocation of kind op
Done(p, op) == proc[p].pc = "done" /\ proc[p].op = op

\* C1: after a create (upload or save-metadata) for id completes without error,
\* the index list holds id exactly once and a lookup of id returns the record
\* that was written.
C1_CreateListsIdOnce ==
    \A p \in Procs :
        ((Done(p, "upload") \/ Done(p, "save")) /\ proc[p].status = 200)
            => /\ Count(getVideoList(kvList), proc[p].id) = 1
               /\ KvGet(kvRec, proc[p].id) = proc[p].meta

OneCharChanged(a, b) ==
    /\ Len(a) = Len(b)
    /\ Cardinality({i \in 1..Len(a) : a[i] # b[i]}) = 1

\* the request in pr carries token tok with one character of one field changed
TamperedOnce(tok, pr) ==
    \/ /\ OneCharChanged(tok.videoId, pr.id)
       /\ tok.signature = pr.signature /\ tok.expires = pr.expires
    \/ /\ OneCharChanged(tok.signature, pr.signature)
       /\ tok.videoId = pr.id /\ tok.expires = pr.expires
    \/ /\ OneCharChanged(tok.expires, pr.expires)
       /\ tok.videoId = pr.id /\ tok.signature = pr.signature

\* C3: a minted token with any single character of its id, signature or expires
\* changed is refused by the token check, whenever it is checked.
C3_TamperEvident ==
    \A p \in Procs :
        (proc[p].parsed /\ issued.some /\ TamperedOnce(issued, proc[p]))
            => ~proc[p].authOk

\* the expiry instant a token carries
ExpiryOf(tok) == parseInt(tok.expires).val

\* C4: a minted token verifies at its minting time, and the stream URL that
\* get-video returns, requested unchanged before its expiry, passes the token
\* check of the stream endpoint.
C4_RoundTrip ==
    /\ issued.some =>
           verifySignedUrl(issued.videoId, issued.signature, issued.expires,
                           SecretKey, issued.at)
    /\ \A p \in Procs :
           (proc[p].parsed /\ proc[p].plain /\ proc[p].at <= ExpiryOf(issued))
               => proc[p].authOk

\* s is a decimal numeral
IsNumeric(s) == Len(s) > 0 /\ \A i \in 1..Len(s) : IsDigit(s[i])

\* C5: a token checked after its expiry instant is refused; a token with the
\* right signature checked at exactly the expiry instant is accepted; a request
\* whose expires is not a number is always refused.
C5_Expiry ==
    \A p \in Procs :
        proc[p].parsed =>
            LET e == parseInt(proc[p].expires)
                signed == proc[p].signature
                              = SignatureOf(proc[p].id, proc[p].expires, SecretKey)
            IN  /\ (~e.nan /\ proc[p].at > e.val) => ~proc[p].authOk
                /\ (~e.nan /\ proc[p].at = e.val /\ signed) => proc[p].authOk
                /\ ~IsNumeric(proc[p].expires) => ~proc[p].authOk

\* C6: an authorized stream request whose upstream answers with a failure
\* status, on the proxied-stream path or on the indirect-fetch path, is answered
\* with status 500 and an error body.
C6_UpstreamFailureIs500 ==
    \A p \in Procs :
        (Done(p, "stream") /\ proc[p].upStatus # 0 /\ ~IsOk(proc[p].upStatus))
            => (proc[p].status = 500 /\ proc[p].body = "json")

\* the token of the request in pr is expired, unreadable or wrongly signed
BadToken(pr) ==
    LET e == parseInt(pr.expires)
    IN  \/ e.nan
        \/ pr.at > e.val
        \/ pr.signature # SignatureOf(pr.id, pr.expires, SecretKey)

\* C7: a stream request with a bad token is answered 403 whether or not its id
\* exists, with neither the record read nor an upstream contacted; 404 is given
\* only to a request with a good token whose id has no record, and an upstream
\* is contacted only after both checks have passed.
C7_TokenBeforeLookup ==
    \A p \in Procs :
        proc[p].op = "stream" =>
            /\ (proc[p].parsed /\ BadToken(proc[p]))
                   => /\ proc[p].pc = "done" /\ proc[p].status = 403
                      /\ proc[p].found = "unread" /\ proc[p].up = {}
            /\ (proc[p].parsed /\ ~BadToken(proc[p])) => proc[p].authOk
            /\ proc[p].found # "unread" => proc[p].authOk
            /\ proc[p].found = "no"
                   => /\ proc[p].pc = "done" /\ proc[p].status = 404
                      /\ proc[p].up = {}
            /\ (proc[p].pc = "done" /\ proc[p].status = 404) => proc[p].found = "no"
            /\ proc[p].up # {} => (proc[p].authOk /\ proc[p].found = "yes")

\* a request with a bad token for an id that has no record was answered 403
C7_Witness ==
    /\ Done(1, "stream")
    /\ proc[1].parsed /\ BadToken(proc[1])
    /\ proc[1].status = 403
    /\ IsMissing(KvGet(kvRec, proc[1].id))

\* no handler invocation is in flight
Quiet == \A p \in Procs : proc[p].pc \in {"idle", "done"}

\* C8: with requests handled one after another, the stored views of a record
\* equal its views at creation plus the number of authorized stream requests
\* for it whose record write succeeded.
C8_SequentialViews ==
    Quiet => \A id \in DOMAIN kvRec : kvRec[id].views = viewsDue[id]

\* a record created with views 0 has been streamed twice
C8_Witness ==
    /\ Done(1, "stream")
    /\ proc[1].status \in {200, 206}
    /\ \E id \in DOMAIN kvRec :
           kvRec[id].title = SmallVideo.title /\ kvRec[id].views = 2

\* C9: a failure of the view-count write during an authorized stream request
\* does not fail the request: it goes on to contact the upstream.
C9_ViewWriteBestEffort ==
    \A p \in Procs :
        (Done(p, "stream") /\ proc[p].threwAt = "s_put")
            => (proc[p].up # {} /\ proc[p].status # 500)

\* C10: under every interleaving of the handlers' steps, the stored views of a
\* record never decrease.
C10_ViewsNeverDecrease ==
    [][\A id \in DOMAIN kvRec \cap DOMAIN kvRec' :
           kvRec'[id].views >= kvRec[id].views]_vars

\* a create (upload or save-metadata) that has completed successfully
Created(p) == (Done(p, "upload") \/ Done(p, "save")) /\ proc[p].status = 200

\* C11: two concurrent creates for distinct ids can both complete successfully
\* with both records stored and only one of the two ids in the index (the state
\* C11_Witness). What the race cannot do: it loses no record, and the index never
\* loses both ids.
C11_LastPrependWins ==
    \A p, q \in Procs :
        (Created(p) /\ Created(q) /\ proc[p].id # proc[q].id)
            => /\ ~IsMissing(KvGet(kvRec, proc[p].id))
               /\ ~IsMissing(KvGet(kvRec, proc[q].id))
               /\ \/ Count(getVideoList(kvList), proc[p].id) > 0
                  \/ Count(getVideoList(kvList), proc[q].id) > 0

\* both creates have answered 200, both records are stored, and the index holds
\* one of the two ids only
C11_Witness ==
    \E p, q \in Procs :
        /\ Created(p) /\ Created(q) /\ proc[p].id # proc[q].id
        /\ ~IsMissing(KvGet(kvRec, proc[p].id))
        /\ ~IsMissing(KvGet(kvRec, proc[q].id))
        /\ getVideoList(kvList) = <<proc[p].id>>

\* C12: when creates and deletes interleave and every one of them runs to
\* completion with no store error, then once no operation is in progress every
\* id in the index list has a stored record.
C12_IndexedIdsHaveRecords ==
    Quiet => \A i \in 1..Len(getVideoList(kvList)) :
                 ~IsMissing(KvGet(kvRec, getVideoList(kvList)[i]))

\* the origins a stream invocation has called
CalledSmall(pr) == "getFile" \in pr.up
CalledLarge(pr) == "relay" \in pr.up

\* C13: an authorized stream of a record of exactly 20 MiB calls the small-file
\* origin (getFile, then the file URL), one of 20 MiB + 1 calls the large-file
\* relay, and a stream that got past the record write has called exactly one of
\* the two origins; the isLarge flag of the upload response has the same boundary.
C13_StrategyBoundary ==
    \A p \in Procs :
        /\ (proc[p].op = "stream" /\ proc[p].pc \in {"s_relay", "s_getfile", "s_file"})
               => /\ proc[p].meta.fileSize <= 20 * 1024 * 1024
                        => (CalledSmall(proc[p]) /\ ~CalledLarge(proc[p]))
                  /\ proc[p].meta.fileSize > 20 * 1024 * 1024
                        => proc[p].up = {"relay"}
        /\ (proc[p].op = "stream" /\ proc[p].found = "yes"
                /\ proc[p].pc # "s_put" /\ proc[p].threwAt # "s_put")
               => (CalledSmall(proc[p]) # CalledLarge(proc[p]))
        /\ (proc[p].op = "stream" /\ "file" \in proc[p].up) => CalledSmall(proc[p])
        /\ Created(p) /\ proc[p].op = "upload"
               => proc[p].isLarge = (proc[p].meta.fileSize > 20 * 1024 * 1024)

\* the stream of a record of exactly 20 MiB has called getFile and the file URL
C13_Witness ==
    /\ proc[1].op = "stream"
    /\ proc[1].pc = "s_file"
    /\ proc[1].meta.fileSize = 20 * 1024 * 1024
    /\ proc[1].up = {"getFile", "file"}

\* a stream request answered with the upstream's body
RelayedStream(p) == Done(p, "stream") /\ proc[p].body = "stream"

\* C14: on both delivery paths the status of a successfully relayed stream is 206
\* when the upstream satisfied a range (answered 206) and 200 in every other
\* case, whatever success status the upstream returned.
C14_RelayStatus ==
    \A p \in Procs :
        (RelayedStream(p) /\ IsOk(proc[p].upAns.status))
            => proc[p].status = (IF proc[p].upAns.status = 206 THEN 206 ELSE 200)

C16_DeleteAllOrFailed ==
    \A p \in Procs :
        (Done(p, "delete") /\ proc[p].status = 200)
            => /\ IsMissing(KvGet(kvRec, proc[p].id))
               /\ Count(getVideoList(kvList), proc[p].id) = 0
               /\ proc[p].up = {"deleteMessage"}
               /\ IsOk(proc[p].upStatus)

\* C17: once the creation of a record has completed (its id is in the index) and
\* until it is deleted, a step changes nothing of the stored record but views,
\* and views only by the write of a stream request, which adds one.
C17_OnlyViewsChange ==
    [][\A id \in DOMAIN kvRec \cap DOMAIN kvRec' :
           Count(getVideoList(kvList), id) > 0
               => \/ kvRec'[id] = kvRec[id]
                  \/ /\ kvRec'[id] = [kvRec[id] EXCEPT !.views = @ + 1]
                     /\ \E p \in Procs : /\ proc[p].op = "stream"
                                         /\ proc[p].pc = "s_put"
                                         /\ proc[p].id = id]_vars

\* C18: when a delete for id has answered success, every request has finished,
\* and no create has written a record for id since the delete removed it, the
\* record for id is absent from the store, however stream requests for id were
\* interleaved with the delete.
C18_DeletedStaysDeleted ==
    \A p \in Procs :
        (Quiet /\ Done(p, "delete") /\ proc[p].status = 200
               /\ proc[p].id \notin DOMAIN viewsDue)
            => IsMissing(KvGet(kvRec, proc[p].id))

\* a response that turns the request down: stream 403 or 404, delete 404,
\* save-metadata 400
Rejected(pr) ==
    \/ pr.op = "stream" /\ pr.status \in {403, 404}
    \/ pr.op = "delete" /\ pr.status = 404
    \/ pr.op = "save" /\ pr.status = 400

\* C19: a request that is turned down (stream 403 or 404, delete 404,
\* save-metadata 400) writes and deletes nothing in the store and calls no
\* upstream, deleteMessage included. With one request at a time: the step that
\* turns it down is the handler's first or its record read, it leaves records
\* and index as they were, and so does the first step of every handler.
C19_RejectedLeaveStore ==
    [][\A p \in Procs :
           /\ (proc[p].pc = "idle" /\ proc'[p].pc # "idle")
                  => (kvRec' = kvRec /\ kvList' = kvList)
           /\ (proc[p].pc # "done" /\ proc'[p].pc = "done" /\ Rejected(proc'[p]))
                  => /\ kvRec' = kvRec /\ kvList' = kvList
                     /\ proc[p].pc \in {"idle", "s_get", "d_get"}
                     /\ proc[p].up = {} /\ proc'[p].up = {}]_vars

\* a delete for an id with no record was answered 404 while another record is
\* stored and indexed
C19_Witness ==
    /\ Done(1, "delete")
    /\ proc[1].status = 404
    /\ DOMAIN kvRec # {}
    /\ Len(getVideoList(kvList)) > 0

\* C20: in every state of every interleaving of creates, list, get-video and
\* stream requests (no delete), failed calls included, every id in the index
\* list has a stored record: a create stores the record before the index.
C20_RecordBeforeIndex ==
    \A i \in 1..Len(getVideoList(kvList)) :
        ~IsMissing(KvGet(kvRec, getVideoList(kvList)[i]))

\* between the two writes of a create: its record is stored, its id is not yet
\* in the index, which holds another id
C20_Witness ==
    \E p \in Procs :
        /\ proc[p].pc \in {"m_putlist", "u_putlist"}
        /\ ~IsMissing(KvGet(kvRec, proc[p].id))
        /\ Count(getVideoList(kvList), proc[p].id) = 0
        /\ Len(getVideoList(kvList)) > 0

====
